---- MODULE Spec2Model ----
(***************************************************************************)
(* A model of pyview.py, the photo collage editor: the frames of a collage *)
(* (PhotoFrameItem), the photo each one owns (PhotoItem) with its offset,  *)
(* scale and rotation, and the event handlers that change them: wheel,     *)
(* key, double click, mouse press/move and drag-and-drop; the layout        *)
(* generators that make the frames, and the key handler of the view        *)
(* (ImageView): border radius, help, save.                                 *)
(*                                                                         *)
(* Numbers.  The code computes with floats; the model computes with exact  *)
(* integers in fixed units:                                                *)
(*   - a scale is counted in units of 1/102400 (One = 1.0), so that 0.01,  *)
(*     0.05 and every fitted scale w/1024 are whole numbers of units;      *)
(*   - an offset (QGraphicsItem.pos) is counted in half scene units, so    *)
(*     that w/2 - pw/2 is a whole number;                                  *)
(*   - a rotation is counted in degrees;                                   *)
(*   - a pointer coordinate is a whole part and a fraction counted in      *)
(*     1e-7 scene units.                                                   *)
(***************************************************************************)
EXTENDS Integers, Sequences, FiniteSets, TLC

\* ------------------------------------------------------------ bounds
\* The largest number of tiles of a collage the model builds.
MaxTiles == 3
\* How many transform-editing gestures (wheel, pan, photo replacement) one
\* explored session holds under Spec.
MaxEdits == 1
\* Under SpecZoom a rotation stays within MaxTurns wheel notches of 0.
MaxTurns == 1
\* Under SpecLayout, the most columns and rows of a uniform grid.
MaxCols == 3
MaxRows == 4
\* Under SpecView the frame border radius is raised no further than this.
MaxRadius == 16

\* ------------------------------------------------- program constants
RotOffset == 5
CanvasWidth == 1024
\* QApplication.startDragDistance(): Qt's default.
StartDragDistance == 10
\* 1.0 as a scale.
One == 100 * 1024
ScaleOffset == (5 * One) \div 100
SmallScaleOffset == One \div 100
MaxZoom == 2 * One

\* No frame, no photo (None).
None == 0
\* dragStartPosition before any secondary-button press (None).
NoPoint == <<>>

Abs(i) == IF i < 0 THEN -i ELSE i

\* ------------------------------------------------------ pixel sources
\* QPixmap(path): the size of the decoded image; a path that is no readable
\* image (also '', the cancelled file chooser) gives the null pixmap, 0 x 0.
ImagePaths == {"small.png", "wide.jpg"}
BadPaths == {"", "notes.txt"}
Paths == ImagePaths \cup BadPaths

\* Twelve more image files, for a command line of twelve distinct files.
Album ==
    <<"01.jpg", "02.jpg", "03.jpg", "04.jpg", "05.jpg", "06.jpg",
      "07.jpg", "08.jpg", "09.jpg", "10.jpg", "11.jpg", "12.jpg">>

QPixmap(path) ==
    CASE path = "small.png" -> [w |-> 200, h |-> 150]
      [] path = "wide.jpg" -> [w |-> 1024, h |-> 768]
      [] (\E i \in DOMAIN Album : Album[i] = path) -> [w |-> 640, h |-> 480]
      [] OTHER -> [w |-> 0, h |-> 0]

\* ------------------------------------------------------------ layout
\* int(): the conversion of a float QRect argument to an integer truncates.
\* Every argument here is the non-negative rational num / den.
Trunc(num, den) == num \div den

\* createGridCollage: the k-th rectangle handed to addPhoto (k = 0, 1, ... in
\* generation order, x outer, y inner).  CollageSize is 1024 x 1024 * (2/3).
GridRect(numx, numy, k) ==
    LET x == k \div numy
        y == k % numy
    IN  [x |-> Trunc(x * CanvasWidth, numx),
         y |-> Trunc(y * CanvasWidth * 2, 3 * numy),
         w |-> Trunc(CanvasWidth, numx),
         h |-> Trunc(CanvasWidth * 2, 3 * numy)]

createGridCollage(numx, numy) ==
    [i \in 1..(numx * numy) |-> GridRect(numx, numy, i - 1)]

\* The rectangles of one column band of a composite collage: the band begins
\* x4 quarters of the canvas width from the left, is w4 quarters wide and
\* holds rows tiles.
Band(x4, w4, rows) ==
    [i \in 1..rows |->
        [x |-> Trunc(x4 * CanvasWidth, 4),
         y |-> Trunc((i - 1) * CanvasWidth * 2, 3 * rows),
         w |-> Trunc(w4 * CanvasWidth, 4),
         h |-> Trunc(CanvasWidth * 2, 3 * rows)]]

create_3_2B_3_collage == Band(0, 1, 3) \o Band(1, 2, 2) \o Band(3, 1, 3)

create_2_2B_2_collage == Band(0, 1, 2) \o Band(1, 2, 2) \o Band(3, 1, 2)

\* next() that stays at the last element instead of wrapping to the first.
RECURSIVE LoopIterIndexNoWrap(_, _)
LoopIterIndexNoWrap(l, k) ==
    IF k = 0 THEN 0
    ELSE IF LoopIterIndexNoWrap(l, k - 1) + 1 < Len(l)
         THEN LoopIterIndexNoWrap(l, k - 1) + 1
         ELSE LoopIterIndexNoWrap(l, k - 1)

\* LoopIter: the index self.i after k calls of next().
RECURSIVE LoopIterIndex(_, _)
LoopIterIndex(l, k) ==
    IF k = 0 THEN 0 ELSE (LoopIterIndex(l, k - 1) + 1) % Len(l)

\* LoopIter.next(), called for the k-th time (k = 0, 1, ...).
LoopIterNext(l, k) == l[LoopIterIndex(l, k) + 1]

VARIABLES
    rects,              \* frame -> its rectangle: position (x, y) and size (w, h)
    filenames,          \* the input file list
    photo,              \* PhotoFrameItem.photo: frame -> photo
    parentItem,         \* PhotoItem.parentItem(): photo -> frame
    filename,           \* PhotoItem.filename
    pixmap,             \* PhotoItem.pixmap(): its size
    pos,                \* PhotoItem.pos(), in half scene units
    scale,              \* PhotoItem.scale(), in units of 1/One
    rotation,           \* PhotoItem.rotation(), in degrees
    dragStartPosition,  \* PhotoItem.dragStartPosition of the photo pressed last
    armed,              \* the photo that holds the pressed secondary button
    drag,               \* the text of the QDrag being executed
    uncaught,           \* an exception has left an event handler
    edits,              \* transform-editing gestures handled so far
    lastEvent,          \* the kind of the event handled last
    layout,             \* the collage main builds: its kind, columns and rows
    FrameRadius,        \* the global FrameRadius
    OutFileName,        \* the global OutFileName
    helpItem,           \* ImageView.helpItem: none, or visible or hidden
    image,              \* the size of the QImage the last save rendered into
    prompted,           \* the last key event showed the file-save dialog
    everChosen          \* the user has chosen an output path in a dialog

\* The layout and what ImageView.keyReleaseEvent works on: no handler of a
\* frame or of a photo touches them.
viewVars == <<layout, FrameRadius, OutFileName, helpItem, image, prompted,
              everChosen>>

vars == <<rects, filenames, photo, parentItem, filename, pixmap, pos, scale,
          rotation, dragStartPosition, armed, drag, uncaught, edits,
          lastEvent, viewVars>>

Frames == 1..Len(rects)
Photos == 1..Len(rects)

\* The frames, the photos and their fields, as one value.
Scene ==
    [photo |-> photo, parentItem |-> parentItem, filename |-> filename,
     pixmap |-> pixmap, pos |-> pos, scale |-> scale, rotation |-> rotation]

Commit(s) ==
    /\ photo' = s.photo
    /\ parentItem' = s.parentItem
    /\ filename' = s.filename
    /\ pixmap' = s.pixmap
    /\ pos' = s.pos
    /\ scale' = s.scale
    /\ rotation' = s.rotation


\* ----------------------------------------------------- PhotoItem, frame
\* reset without setRotation(0.0).
resetKeepsRotation(s, p) ==
    LET f == s.parentItem[p]
        centred == <<rects[f].w - s.pixmap[p].w, rects[f].h - s.pixmap[p].h>>
    IN  [s EXCEPT !.pos[p] = IF f # None THEN centred ELSE @,
                  !.scale[p] = One]

\* PhotoItem.reset: centre the photo in its parent frame (when it has one),
\* scale 1.0, rotation 0.0.
reset(s, p) ==
    LET f == s.parentItem[p]
        centred == <<rects[f].w - s.pixmap[p].w, rects[f].h - s.pixmap[p].h>>
    IN  [s EXCEPT !.pos[p] = IF f # None THEN centred ELSE @,
                  !.scale[p] = One,
                  !.rotation[p] = 0]

\* PhotoFrameItem.fitPhoto: a photo wider than the frame is scaled to its width.
fitPhoto(s, f) ==
    LET p == s.photo[f]
        photoWidth == s.pixmap[p].w
        frameWidth == rects[f].w
    IN  IF photoWidth > frameWidth
        THEN [s EXCEPT !.scale[p] = (@ * frameWidth) \div photoWidth]
        ELSE s

\* setPhoto that resets whatever its reset argument says.
FrameSetPhotoResets(s, f, p, doReset) ==
    fitPhoto(reset([s EXCEPT !.photo[f] = p, !.parentItem[p] = f], p), f)

\* setPhoto without photo.setParentItem(self).
FrameSetPhotoNoParent(s, f, p, doReset) ==
    LET s1 == [s EXCEPT !.photo[f] = p]
    IN  IF doReset THEN fitPhoto(reset([s1 EXCEPT !.parentItem[p] = f], p), f) ELSE s1

\* setPhoto that calls fitPhoto outside the test of its reset argument.
FrameSetPhotoAlwaysFits(s, f, p, doReset) ==
    LET s1 == [s EXCEPT !.photo[f] = p, !.parentItem[p] = f]
    IN  IF doReset THEN fitPhoto(reset(s1, p), f) ELSE fitPhoto(s1, f)

\* PhotoFrameItem.setPhoto(photo, reset).
FrameSetPhoto(s, f, p, doReset) ==
    LET s1 == [s EXCEPT !.photo[f] = p, !.parentItem[p] = f]
    IN  IF doReset THEN fitPhoto(reset(s1, p), f) ELSE s1

\* PhotoItem.setPhoto without the final reset.
PhotoSetPhotoNoReset(s, p, path) ==
    IF QPixmap(path).w > 0
    THEN [s EXCEPT !.filename[p] = path, !.pixmap[p] = QPixmap(path)]
    ELSE s

\* PhotoItem.setPhoto without the test of the pixmap's width.
PhotoSetPhotoUnchecked(s, p, path) ==
    reset([s EXCEPT !.filename[p] = path, !.pixmap[p] = QPixmap(path)], p)

\* PhotoItem.setPhoto(filename): a path that decodes to no image changes nothing.
PhotoSetPhoto(s, p, path) ==
    IF QPixmap(path).w > 0
    THEN reset([s EXCEPT !.filename[p] = path, !.pixmap[p] = QPixmap(path)], p)
    ELSE s

\* PhotoItem.__init__ for each of n photos: the i-th made of the i-th file that
\* LoopIter yields; no parent yet, so reset leaves pos at (0, 0).
NewPhotos(files, n) ==
    [photo |-> [f \in 1..n |-> None],
     parentItem |-> [p \in 1..n |-> None],
     filename |-> [p \in 1..n |-> LoopIterNext(files, p - 1)],
     pixmap |-> [p \in 1..n |-> QPixmap(LoopIterNext(files, p - 1))],
     pos |-> [p \in 1..n |-> <<0, 0>>],
     scale |-> [p \in 1..n |-> One],
     rotation |-> [p \in 1..n |-> 0]]

\* CollageScene.addPhoto for the frames 1..k: frame.setPhoto(photo).
RECURSIVE addPhoto(_, _)
addPhoto(s, k) ==
    IF k = 0 THEN s ELSE FrameSetPhoto(addPhoto(s, k - 1), k, k, TRUE)

\* --------------------------------------------------------- hit testing
\* A pointer coordinate: whole part i (the floor) and fraction f in 1e-7 units.
Coord(i, f) == [i |-> i, f |-> f]
Point(x, y) == [x |-> x, y |-> y]

\* Where the pointer is when an event is delivered (scene coordinates).
ScenePoints ==
    { Point(Coord(100, 0), Coord(100, 0)),
      Point(Coord(340, 9999996), Coord(100, 0)),
      Point(Coord(1023, 5000000), Coord(682, 5000000)) }

\* '%f' % c followed by json.loads: c rounded to 6 decimals; the fraction of
\* the result is counted in 1e-7 units again.
FormatF(c) ==
    LET micro == (c.f + 5) \div 10
    IN  IF micro = 1000000 THEN Coord(c.i + 1, 0) ELSE Coord(c.i, micro * 10)

\* QGraphicsItem.contains for a frame, whose shape is its rectangle: the left
\* and top edges belong to it, the right and bottom edges do not.
Contains(r, pt) ==
    /\ r.x <= pt.x.i /\ pt.x.i < r.x + r.w
    /\ r.y <= pt.y.i /\ pt.y.i < r.y + r.h

\* scene().items(point), the PhotoFrameItems of it, front to back: of the
\* frames 1..k, those at pt, the frame added last first.
RECURSIVE FramesAt(_, _)
FramesAt(pt, k) ==
    IF k = 0 THEN <<>>
    ELSE (IF Contains(rects[k], pt) THEN <<k>> ELSE <<>>) \o FramesAt(pt, k - 1)

\* ------------------------------------------------------------ payloads
\* QMimeData.text(): the swap payload '{ "pos": { "x" : %f, "y" : %f }}', text
\* that is no JSON, or JSON without pos.x and pos.y.
Zero == Coord(0, 0)
SwapText(pt) == [form |-> "pos", x |-> FormatF(pt.x), y |-> FormatF(pt.y)]
Garbage == [form |-> "garbage", x |-> Zero, y |-> Zero]
NoPos == [form |-> "nopos", x |-> Zero, y |-> Zero]
NoDrag == [form |-> "idle", x |-> Zero, y |-> Zero]

\* What a drag from outside the application carries: one file URL (its text is
\* the URL, no JSON), or text: no JSON, JSON of another shape, or by chance
\* JSON of the payload's shape.
ForeignText == [form |-> "pos", x |-> Coord(100, 0), y |-> Coord(100, 0)]

MimeData ==
    {[urls |-> <<path>>, text |-> Garbage] : path \in {"wide.jpg", "notes.txt"}}
        \cup {[urls |-> <<>>, text |-> t] : t \in {Garbage, NoPos, ForeignText}}

\* -------------------------------------------------------- the handlers
\* round(x, 2) of a scale: to the nearest hundredth, a tie to the even one.
Round2(sc) ==
    LET h == One \div 100
        q == sc \div h
        r == sc % h
    IN  IF 2 * r < h \/ (2 * r = h /\ q % 2 = 0) THEN q * h ELSE (q + 1) * h

\* wheelEvent whose shift branch also sets the scale.
wheelEventShiftScales(s, p, delta, modifiers) ==
    LET sc0 == s.scale[p]
        rot0 == s.rotation[p]
        rot == IF delta > 0 THEN rot0 + RotOffset ELSE rot0 - RotOffset
        sc == IF delta > 0
              THEN IF sc0 < MaxZoom
                   THEN IF Round2(sc0) < Round2(ScaleOffset * 2)
                        THEN sc0 + SmallScaleOffset
                        ELSE sc0 + ScaleOffset
                   ELSE sc0
              ELSE IF sc0 >= ScaleOffset * 2 THEN sc0 - ScaleOffset
                   ELSE IF sc0 >= SmallScaleOffset * 2 THEN sc0 - SmallScaleOffset
                   ELSE sc0
    IN  CASE modifiers = "none" -> [s EXCEPT !.scale[p] = sc]
          [] modifiers \in {"shift", "shift+ctrl"} ->
                [s EXCEPT !.scale[p] = sc, !.rotation[p] = rot]
          [] OTHER -> s

\* wheelEvent without the small step: a zoom-in always adds ScaleOffset.
wheelEventCoarseOnly(s, p, delta, modifiers) ==
    LET sc0 == s.scale[p]
        rot0 == s.rotation[p]
        rot == IF delta > 0 THEN rot0 + RotOffset ELSE rot0 - RotOffset
        sc == IF delta > 0
              THEN IF sc0 < MaxZoom THEN sc0 + ScaleOffset ELSE sc0
              ELSE IF sc0 >= ScaleOffset * 2 THEN sc0 - ScaleOffset
                   ELSE IF sc0 >= SmallScaleOffset * 2 THEN sc0 - SmallScaleOffset
                   ELSE sc0
    IN  CASE modifiers = "none" -> [s EXCEPT !.scale[p] = sc]
          [] modifiers = "shift" -> [s EXCEPT !.rotation[p] = rot]
          [] modifiers = "shift+ctrl" ->
                [s EXCEPT !.scale[p] = sc, !.rotation[p] = rot]
          [] OTHER -> s

\* wheelEvent whose zoom-out takes the small step off every scale below
\* ScaleOffset * 2, without the test against SmallScaleOffset * 2.
wheelEventNoFloor(s, p, delta, modifiers) ==
    LET sc0 == s.scale[p]
        rot0 == s.rotation[p]
        rot == IF delta > 0 THEN rot0 + RotOffset ELSE rot0 - RotOffset
        sc == IF delta > 0
              THEN IF sc0 < MaxZoom
                   THEN IF Round2(sc0) < Round2(ScaleOffset * 2)
                        THEN sc0 + SmallScaleOffset
                        ELSE sc0 + ScaleOffset
                   ELSE sc0
              ELSE IF sc0 >= ScaleOffset * 2 THEN sc0 - ScaleOffset
                   ELSE sc0 - SmallScaleOffset
    IN  CASE modifiers = "none" -> [s EXCEPT !.scale[p] = sc]
          [] modifiers = "shift" -> [s EXCEPT !.rotation[p] = rot]
          [] modifiers = "shift+ctrl" ->
                [s EXCEPT !.scale[p] = sc, !.rotation[p] = rot]
          [] OTHER -> s

\* PhotoItem.wheelEvent.  modifiers: "none", "shift", "shift+ctrl", "ctrl".
wheelEvent(s, p, delta, modifiers) ==
    LET sc0 == s.scale[p]
        rot0 == s.rotation[p]
        rot == IF delta > 0 THEN rot0 + RotOffset ELSE rot0 - RotOffset
        sc == IF delta > 0
              THEN IF sc0 < MaxZoom
                   THEN IF Round2(sc0) < Round2(ScaleOffset * 2)
                        THEN sc0 + SmallScaleOffset
                        ELSE sc0 + ScaleOffset
                   ELSE sc0
              ELSE IF sc0 >= ScaleOffset * 2 THEN sc0 - ScaleOffset
                   ELSE IF sc0 >= SmallScaleOffset * 2 THEN sc0 - SmallScaleOffset
                   ELSE sc0
    IN  CASE modifiers = "none" -> [s EXCEPT !.scale[p] = sc]
          [] modifiers = "shift" -> [s EXCEPT !.rotation[p] = rot]
          [] modifiers = "shift+ctrl" ->
                [s EXCEPT !.scale[p] = sc, !.rotation[p] = rot]
          [] OTHER -> s

\* QMimeData.hasText(): a payload of text has text, and so has one of URLs
\* (Qt renders the URLs as text).
hasText(mime) == mime.text # NoDrag

\* PhotoFrameItem.dragEnterEvent: whether the drag is accepted.
dragEnterEvent(mime) == Len(mime.urls) = 1 \/ hasText(mime)

\* The loop without self.setPhoto(photoItem): the target keeps its photo.
RECURSIVE SwapPhotosOneWay(_, _, _)
SwapPhotosOneWay(s, t, items) ==
    IF items = <<>> THEN s
    ELSE SwapPhotosOneWay(FrameSetPhoto(s, Head(items), s.photo[t], FALSE),
                          t, Tail(items))

\* The loop with setPhoto's default reset=True.
RECURSIVE SwapPhotosDefaultReset(_, _, _)
SwapPhotosDefaultReset(s, t, items) ==
    IF items = <<>> THEN s
    ELSE LET srcItem == Head(items)
             photoItem == s.photo[srcItem]
             s1 == FrameSetPhoto(s, srcItem, s.photo[t], TRUE)
             s2 == FrameSetPhoto(s1, t, photoItem, TRUE)
         IN  SwapPhotosDefaultReset(s2, t, Tail(items))

\* The loop of dropEvent over the items at the payload's position: each frame
\* among them exchanges its photo with the target's, without reset.
RECURSIVE SwapPhotos(_, _, _)
SwapPhotos(s, t, items) ==
    IF items = <<>> THEN s
    ELSE LET srcItem == Head(items)
             photoItem == s.photo[srcItem]
             s1 == FrameSetPhoto(s, srcItem, s.photo[t], FALSE)
             s2 == FrameSetPhoto(s1, t, photoItem, FALSE)
         IN  SwapPhotos(s2, t, Tail(items))

\* The body of the try statement of dropEvent: json.loads and the lookup of
\* pos.x and pos.y raise on text that is no swap payload.
TrySwap(s, t, text) ==
    IF text.form # "pos"
    THEN [scene |-> s, raised |-> TRUE, items |-> <<>>]
    ELSE LET items == FramesAt(Point(text.x, text.y), Len(rects))
         IN  [scene |-> SwapPhotos(s, t, items), raised |-> FALSE, items |-> items]

\* dropEvent without its except clause: what the try statement raises leaves
\* the handler.
dropEventNoExcept(s, t, action, mime) ==
    IF action = "copy" /\ Len(mime.urls) > 0
    THEN [scene |-> PhotoSetPhoto(s, s.photo[t], mime.urls[1]),
          kind |-> IF QPixmap(mime.urls[1]).w > 0 THEN "replace" ELSE "replaceInvalid",
          items |-> <<>>, escaped |-> FALSE]
    ELSE IF action = "move" /\ hasText(mime)
    THEN LET r == TrySwap(s, t, mime.text)
         IN  [scene |-> r.scene,
              kind |-> IF r.raised THEN "dropMalformed"
                       ELSE IF r.items = <<>> THEN "dropUnresolved"
                       ELSE IF r.items = <<t>> THEN "swapSelf" ELSE "swap",
              items |-> r.items, escaped |-> r.raised]
    ELSE [scene |-> s, kind |-> "dropIgnored", items |-> <<>>, escaped |-> FALSE]

\* PhotoFrameItem.dropEvent on frame t.  action: "copy" or "move".
\* `except Exception` ends every exception of the try statement.
dropEvent(s, t, action, mime) ==
    IF action = "copy" /\ Len(mime.urls) > 0
    THEN [scene |-> PhotoSetPhoto(s, s.photo[t], mime.urls[1]),
          kind |-> IF QPixmap(mime.urls[1]).w > 0 THEN "replace" ELSE "replaceInvalid",
          items |-> <<>>, escaped |-> FALSE]
    ELSE IF action = "move" /\ hasText(mime)
    THEN LET r == TrySwap(s, t, mime.text)
         IN  [scene |-> r.scene,
              kind |-> IF r.raised THEN "dropMalformed"
                       ELSE IF r.items = <<>> THEN "dropUnresolved"
                       ELSE IF r.items = <<t>> THEN "swapSelf" ELSE "swap",
              items |-> r.items, escaped |-> FALSE]
    ELSE [scene |-> s, kind |-> "dropIgnored", items |-> <<>>, escaped |-> FALSE]

\* ------------------------------------------------------------- actions

\* event.pos() of a press and of a move, in the photo's own coordinates.
PressPoints == {<<0, 0>>}
MovePoints == {<<0, 0>>, <<5, 4>>, <<5, 5>>}
\* How far a primary-button move drags the photo, in half scene units.
PanDeltas == {<<20, -14>>}

\* No button is held and no drag is under way.
Idle == drag = NoDrag /\ armed = None

\* PhotoFrameItem.mouseDoubleClickEvent (PhotoItem forwards its own to it):
\* path is what the file chooser returns.
DoubleClick(f, path) ==
    /\ Idle
    /\ Commit(PhotoSetPhoto(Scene, photo[f], path))
    /\ lastEvent' = IF QPixmap(path).w > 0 THEN "open" ELSE "openInvalid"
    /\ UNCHANGED <<viewVars, rects, filenames, dragStartPosition, armed, drag, uncaught>>

\* PhotoFrameItem.keyReleaseEvent.
KeyRelease(f, key) ==
    /\ Idle
    /\ IF key = "Slash"
       THEN /\ Commit(reset(Scene, photo[f]))
            /\ lastEvent' = "reset"
       ELSE /\ Commit(Scene)
            /\ UNCHANGED lastEvent
    /\ UNCHANGED <<viewVars, rects, filenames, dragStartPosition, armed, drag, uncaught>>

\* PhotoItem.wheelEvent.
Wheel(p, delta, modifiers) ==
    /\ Idle
    /\ Commit(wheelEvent(Scene, p, delta, modifiers))
    /\ lastEvent' = "wheel"
    /\ UNCHANGED <<viewVars, rects, filenames, dragStartPosition, armed, drag, uncaught>>

\* PhotoItem.mousePressEvent.  Each photo has a dragStartPosition of its own;
\* mouseMoveEvent reads it only while the photo holds the secondary button,
\* after this handler has set it, so the one value set last stands for all.
MousePress(p, button, pt) ==
    /\ Idle
    /\ IF button = "right"
       THEN /\ dragStartPosition' = pt
            /\ armed' = p
            /\ lastEvent' = "press"
       ELSE UNCHANGED <<dragStartPosition, armed, lastEvent>>
    /\ UNCHANGED <<viewVars, rects, filenames, photo, parentItem, filename, pixmap, pos,
                   scale, rotation, drag, uncaught>>

\* mouseMoveEvent whose move below the drag distance falls through to the
\* primary button's branch, which moves the photo.
MouseMoveRightPans(p, pt, scenePt) ==
    /\ drag = NoDrag /\ armed = p
    /\ LET d == <<pt[1] - dragStartPosition[1], pt[2] - dragStartPosition[2]>>
           manhattanLength == Abs(d[1]) + Abs(d[2])
       IN  IF manhattanLength < StartDragDistance
           THEN /\ UNCHANGED <<armed, drag>>
                /\ pos' = [pos EXCEPT ![p] = <<@[1] + 2 * d[1], @[2] + 2 * d[2]>>]
                /\ lastEvent' = "moveBelow"
           ELSE /\ armed' = None
                /\ drag' = SwapText(scenePt)
                /\ pos' = pos
                /\ lastEvent' = "dragStart"
    /\ UNCHANGED <<viewVars, rects, filenames, photo, parentItem, filename, pixmap,
                   scale, rotation, dragStartPosition, uncaught>>

\* PhotoItem.mouseMoveEvent with the secondary button held: below the drag
\* distance nothing happens; from it on, the QDrag starts, its text made of
\* scenePt, the pointer's place in the scene.
MouseMoveRight(p, pt, scenePt) ==
    /\ drag = NoDrag /\ armed = p
    /\ LET d == <<pt[1] - dragStartPosition[1], pt[2] - dragStartPosition[2]>>
           manhattanLength == Abs(d[1]) + Abs(d[2])
       IN  IF manhattanLength < StartDragDistance
           THEN /\ UNCHANGED <<armed, drag>>
                /\ lastEvent' = "moveBelow"
           ELSE /\ armed' = None
                /\ drag' = SwapText(scenePt)
                /\ lastEvent' = "dragStart"
    /\ UNCHANGED <<viewVars, rects, filenames, photo, parentItem, filename, pixmap, pos,
                   scale, rotation, dragStartPosition, uncaught>>

\* PhotoItem.mouseMoveEvent with the primary button: QGraphicsItem moves the
\* movable photo along with the pointer.
MouseMoveLeft(p, d) ==
    /\ Idle
    /\ pos' = [pos EXCEPT ![p] = <<@[1] + d[1], @[2] + d[2]>>]
    /\ lastEvent' = "pan"
    /\ UNCHANGED <<viewVars, rects, filenames, photo, parentItem, filename, pixmap,
                   scale, rotation, dragStartPosition, armed, drag, uncaught>>

\* The secondary button is released with no drag started: no handler of
\* pyview runs.
MouseRelease(p) ==
    /\ drag = NoDrag /\ armed = p
    /\ armed' = None
    /\ lastEvent' = "release"
    /\ UNCHANGED <<viewVars, rects, filenames, photo, parentItem, filename, pixmap, pos,
                   scale, rotation, dragStartPosition, drag, uncaught>>

\* A drop on frame t, handled by dropEvent.
Drop(t, action, mime) ==
    LET r == dropEvent(Scene, t, action, mime)
    IN  /\ dragEnterEvent(mime)
        /\ Commit(r.scene)
        /\ uncaught' = (uncaught \/ r.escaped)
        /\ lastEvent' = r.kind
        /\ drag' = NoDrag
        /\ UNCHANGED <<viewVars, rects, filenames, dragStartPosition, armed>>

\* The QDrag started by mouseMoveEvent is dropped on frame t.
SwapDrop(t) ==
    /\ drag # NoDrag
    /\ Drop(t, "move", [urls |-> <<>>, text |-> drag])

\* The QDrag is dropped where no frame is: no handler runs.
DropOutside ==
    /\ drag # NoDrag
    /\ drag' = NoDrag
    /\ lastEvent' = "dropOutside"
    /\ UNCHANGED <<viewVars, rects, filenames, photo, parentItem, filename, pixmap, pos,
                   scale, rotation, dragStartPosition, armed, uncaught>>

\* A drag that began outside the application is dropped on frame t.
ExternalDrop(t, action, mime) ==
    /\ Idle
    /\ Drop(t, action, mime)

\* --------------------------------------------------------------- Init
\* The module's globals and a new ImageView: FrameRadius = 15.0, OutFileName
\* = "out.png", helpItem = None; nothing saved, no dialog shown yet.
NoImage == [w |-> 0, h |-> 0]

InitView ==
    /\ FrameRadius = 15
    /\ OutFileName = "out.png"
    /\ helpItem = "none"
    /\ image = NoImage
    /\ prompted = FALSE
    /\ everChosen = FALSE

\* The file lists of the command line (at least one file).
InputLists == {<<"wide.jpg">>, <<"small.png", "wide.jpg">>}

\* main: the collage of a numx x numy grid over the input files.
Init ==
    \E numx \in 1..MaxTiles, numy \in 1..MaxTiles, files \in InputLists :
        /\ numx * numy <= MaxTiles
        /\ rects = createGridCollage(numx, numy)
        /\ filenames = files
        /\ LET s == addPhoto(NewPhotos(files, numx * numy), numx * numy)
           IN  /\ photo = s.photo
               /\ parentItem = s.parentItem
               /\ filename = s.filename
               /\ pixmap = s.pixmap
               /\ pos = s.pos
               /\ scale = s.scale
               /\ rotation = s.rotation
        /\ dragStartPosition = NoPoint
        /\ armed = None
        /\ drag = NoDrag
        /\ uncaught = FALSE
        /\ edits = 0
        /\ lastEvent = "init"
        /\ layout = [kind |-> "grid", numx |-> numx, numy |-> numy]
        /\ InitView

\* An event that edits a photo's transform or content counts against MaxEdits.
Counted(isEdit) ==
    IF isEdit THEN edits < MaxEdits /\ edits' = edits + 1 ELSE edits' = edits

Next ==
    \/ \E f \in Frames, path \in Paths :
          DoubleClick(f, path) /\ Counted(QPixmap(path).w > 0)
    \/ \E f \in Frames, key \in {"Slash", "Other"} :
          KeyRelease(f, key) /\ Counted(FALSE)
    \/ \E p \in Photos, delta \in {-120, 120},
          modifiers \in {"none", "shift", "shift+ctrl", "ctrl"} :
          Wheel(p, delta, modifiers) /\ Counted(TRUE)
    \/ \E p \in Photos, button \in {"left", "right"}, pt \in PressPoints :
          MousePress(p, button, pt) /\ Counted(FALSE)
    \/ \E p \in Photos, pt \in MovePoints, scenePt \in ScenePoints :
          MouseMoveRight(p, pt, scenePt) /\ Counted(FALSE)
    \/ \E p \in Photos, d \in PanDeltas :
          MouseMoveLeft(p, d) /\ Counted(TRUE)
    \/ \E p \in Photos : MouseRelease(p) /\ Counted(FALSE)
    \/ \E t \in Frames : SwapDrop(t) /\ Counted(FALSE)
    \/ DropOutside /\ Counted(FALSE)
    \/ \E t \in Frames, action \in {"copy", "move"}, mime \in MimeData :
          ExternalDrop(t, action, mime)
              /\ Counted(dropEvent(Scene, t, action, mime).kind = "replace")

Spec == Init /\ [][Next]_vars

\* ------------------------------------------------------------- layout
\* The collages main can build: a uniform grid, or a composite pattern.
Layouts ==
    {[kind |-> "grid", numx |-> nx, numy |-> ny] :
        nx \in 1..MaxCols, ny \in 1..MaxRows}
        \cup {[kind |-> "3_2B_3", numx |-> 3, numy |-> 3],
              [kind |-> "2_2B_2", numx |-> 3, numy |-> 2]}

\* The rectangles a layout's generator hands to addPhoto, in order.
LayoutRects(l) ==
    CASE l.kind = "grid" -> createGridCollage(l.numx, l.numy)
      [] l.kind = "3_2B_3" -> create_3_2B_3_collage
      [] l.kind = "2_2B_2" -> create_2_2B_2_collage

LayoutInputs == InputLists \cup {Album}

\* Frames 1..Attached have been added to the scene by addPhoto.
Attached == Cardinality({f \in Frames : photo[f] # None})
Built == Attached = Len(rects)

\* The generator is about to run: rects is the list of rectangles it will
\* hand to addPhoto and the photos are those it will make of the files
\* LoopIter yields, none attached yet.
InitLayout ==
    \E l \in Layouts, files \in LayoutInputs :
        /\ layout = l
        /\ rects = LayoutRects(l)
        /\ filenames = files
        /\ LET s == NewPhotos(files, Len(LayoutRects(l)))
           IN  /\ photo = s.photo
               /\ parentItem = s.parentItem
               /\ filename = s.filename
               /\ pixmap = s.pixmap
               /\ pos = s.pos
               /\ scale = s.scale
               /\ rotation = s.rotation
        /\ dragStartPosition = NoPoint
        /\ armed = None
        /\ drag = NoDrag
        /\ uncaught = FALSE
        /\ edits = 0
        /\ lastEvent = "init"
        /\ InitView

\* The generator's next call of CollageScene.addPhoto: the next frame gets
\* the next photo.
AddPhoto ==
    /\ ~Built
    /\ Commit(FrameSetPhoto(Scene, Attached + 1, Attached + 1, TRUE))
    /\ lastEvent' = "addPhoto"
    /\ UNCHANGED <<viewVars, rects, filenames, dragStartPosition, armed, drag,
                   uncaught, edits>>

SpecLayout == InitLayout /\ [][AddPhoto]_vars

\* ----------------------------------------------------------- ImageView
\* The keys ImageView.keyReleaseEvent tells apart, the modifiers held with
\* them, and what QFileDialog.getSaveFileName returns ('' when cancelled).
ViewKeys == {"Plus", "Minus", "H", "S", "Other"}
KeyModifiers == {"none", "shift", "ctrl", "shift+ctrl"}
SaveAnswers == {"", "a.png"}

\* FrameRadius - 1.0 without max(0, ...).
DecreaseRadiusUnclamped(r) == r - 1

\* max(0, FrameRadius - 1.0).
DecreaseRadius(r) == IF r - 1 > 0 THEN r - 1 ELSE 0

\* QImage(CollageSize.width(), CollageSize.height(), ...): the float
\* arguments 1024.0 and 1024 * (2.0 / 3.0) converted to int.
ExportImage ==
    [w |-> Trunc(CanvasWidth, 1), h |-> Trunc(CanvasWidth * 2, 3)]

\* The test of the Key_S branch: whether the file-save dialog is shown.
ShowsDialog(modifiers) ==
    (modifiers = "none" /\ OutFileName = "") \/ modifiers = "shift"

\* ImageView.keyReleaseEvent; answer is what the file-save dialog returns
\* when it is shown.
ImageViewKeyRelease(key, modifiers, answer) ==
    /\ Idle
    /\ CASE key = "Plus" ->
              /\ FrameRadius' = FrameRadius + 1
              /\ lastEvent' = "radiusUp"
              /\ prompted' = FALSE
              /\ UNCHANGED <<OutFileName, helpItem, image, everChosen>>
         [] key = "Minus" ->
              /\ FrameRadius' = DecreaseRadius(FrameRadius)
              /\ lastEvent' = IF FrameRadius = 0 THEN "radiusFloor" ELSE "radiusDown"
              /\ prompted' = FALSE
              /\ UNCHANGED <<OutFileName, helpItem, image, everChosen>>
         [] key = "H" ->
              /\ helpItem' = IF helpItem = "visible" THEN "hidden" ELSE "visible"
              /\ lastEvent' = "help"
              /\ prompted' = FALSE
              /\ UNCHANGED <<FrameRadius, OutFileName, image, everChosen>>
         [] key = "S" ->
              IF ShowsDialog(modifiers)
              THEN /\ OutFileName' = answer
                   /\ prompted' = TRUE
                   /\ everChosen' = (everChosen \/ answer # "")
                   /\ image' = ExportImage
                   /\ lastEvent' = "saveAsked"
                   /\ UNCHANGED <<FrameRadius, helpItem>>
              ELSE IF modifiers = "ctrl"
              THEN /\ prompted' = FALSE
                   /\ lastEvent' = "saveSkipped"
                   /\ UNCHANGED <<FrameRadius, OutFileName, helpItem, image,
                                  everChosen>>
              ELSE /\ prompted' = FALSE
                   /\ image' = ExportImage
                   /\ lastEvent' = "saveSilent"
                   /\ UNCHANGED <<FrameRadius, OutFileName, helpItem,
                                  everChosen>>
         [] OTHER ->
              /\ prompted' = FALSE
              /\ lastEvent' = "key"
              /\ UNCHANGED <<FrameRadius, OutFileName, helpItem, image,
                             everChosen>>
    /\ UNCHANGED <<layout, rects, filenames, photo, parentItem, filename,
                   pixmap, pos, scale, rotation, dragStartPosition, armed,
                   drag, uncaught>>

\* Key events of the view alone, over the collage of one tile; the border
\* radius is raised no further than MaxRadius.
InitSingle == Init /\ Len(rects) = 1 /\ filenames = <<"wide.jpg">>

NextView ==
    \E key \in ViewKeys, modifiers \in KeyModifiers, answer \in SaveAnswers :
        /\ ImageViewKeyRelease(key, modifiers, answer)
        /\ key = "Plus" => FrameRadius < MaxRadius
        /\ edits' = edits

SpecView == InitSingle /\ [][NextView]_vars

\* Wheel gestures alone, on the photo of the first frame, as many as the user
\* likes; a rotation is kept within MaxTurns notches of 0.
NextZoom ==
    \E delta \in {-120, 120}, modifiers \in {"none", "shift", "shift+ctrl", "ctrl"} :
        /\ Wheel(photo[1], delta, modifiers)
        /\ Abs(rotation'[photo[1]]) <= MaxTurns * RotOffset
        /\ edits' = edits

SpecZoom == Init /\ [][NextZoom]_vars

\* -------------------------------------------------------------- claims
SameOwners == photo' = photo /\ parentItem' = parentItem
SameTransforms == pos' = pos /\ scale' = scale /\ rotation' = rotation
SameSources == pixmap' = pixmap /\ filename' = filename
SameScene == SameOwners /\ SameTransforms /\ SameSources

\* What a "move" drop can carry: the text of the drag under way, or text
\* from outside the application.
MoveTexts == {drag, Garbage, NoPos, ForeignText} \ {NoDrag}
TextMime(text) == [urls |-> <<>>, text |-> text]
\* The frames a payload's position resolves to.
Resolved(text) == FramesAt(Point(text.x, text.y), Len(rects))
\* The photo -> frame assignment main builds.
Identity == [f \in Frames |-> f]
\* The pos that centres photo p in frame f, for the pixmap sizes pm.
Centred(f, p, pm) == <<rects[f].w - pm[p].w, rects[f].h - pm[p].h>>

\* C1: a completed swap drop on frame t whose payload position resolves to
\* the single frame src leaves t with the photo src owned, src with the photo
\* t owned, and every other frame with the photo it owned.
C1_SwapExchangesPhotos ==
    [][\A t \in Frames, text \in MoveTexts, src \in Frames :
          (/\ lastEvent' \in {"swap", "swapSelf"}
           /\ text.form = "pos"
           /\ Resolved(text) = <<src>>
           /\ Drop(t, "move", TextMime(text)))
          => /\ photo'[t] = photo[src]
             /\ photo'[src] = photo[t]
             /\ \A f \in Frames \ {t, src} : photo'[f] = photo[f]]_vars

\* A swap has just exchanged the photos of frames 1 and 2 of three frames.
C1_Witness ==
    /\ lastEvent = "swap"
    /\ Len(rects) = 3
    /\ photo = <<2, 1, 3>>

\* C2: from every reachable scene, a swap drop of frame src's photo on frame
\* t followed by a second swap of the same pair (dropped on t again, or the
\* other way round, on src) gives back the scene: every frame's photo and
\* every photo's parent, pixel source, offset, scale and rotation.
C2_SwapTwiceRestores ==
    \A text \in {SwapText(pt) : pt \in ScenePoints} :
        Len(Resolved(text)) = 1 =>
            \A t \in Frames :
                LET src == Resolved(text)[1]
                    once == dropEvent(Scene, t, "move", TextMime(text)).scene
                IN  /\ dropEvent(once, t, "move", TextMime(text)).scene = Scene
                    /\ \A back \in {SwapText(pt) : pt \in ScenePoints} :
                          Resolved(back) = <<t>> =>
                              dropEvent(once, src, "move", TextMime(back)).scene = Scene

\* After an edit of a transform, two swaps in a row have given back the
\* assignment main built.
C2_Witness ==
    /\ lastEvent = "swap"
    /\ Len(rects) = 3
    /\ photo = Identity
    /\ \E p \in Photos : rotation[p] # 0 \/ scale[p] % ScaleOffset # 0

\* C3: in every reachable state each frame owns one photo, each photo is
\* owned by exactly one frame, and a photo's parent is the frame that owns it.
C3_OwnershipOneToOne ==
    /\ \A f \in Frames : photo[f] \in Photos /\ parentItem[photo[f]] = f
    /\ \A p \in Photos : Cardinality({f \in Frames : photo[f] = p}) = 1

\* Swaps have rotated the photos of three frames, one of them edited.
C3_Witness ==
    /\ Len(rects) = 3
    /\ photo = <<2, 3, 1>>
    /\ edits = MaxEdits
    /\ lastEvent = "swap"

\* C4: a swap drop changes no photo's offset, scale, rotation or pixel
\* source (so no photo is reset by it).
C4_SwapKeepsTransforms ==
    [][\A t \in Frames, text \in MoveTexts :
          (/\ lastEvent' \in {"swap", "swapSelf"}
           /\ text.form = "pos"
           /\ Drop(t, "move", TextMime(text)))
          => SameTransforms /\ SameSources]_vars

\* A swap has just moved a photo that is rotated, or scaled off its reset
\* and fitted scale, to another frame.
C4_Witness ==
    /\ lastEvent = "swap"
    /\ \E p \in Photos :
          /\ parentItem[p] # p
          /\ rotation[p] # 0 \/ pos[p] # Centred(parentItem[p], p, pixmap)

\* C5: whatever zoom-in and zoom-out gestures a photo receives, from the
\* scale it has once attached to a frame (1.0, or the fitted scale), its
\* scale never exceeds MaxZoom.
C5_ScaleNeverExceedsMaxZoom ==
    \A p \in Photos : scale[p] <= MaxZoom

\* The transform of every photo but p is what it was.
OthersKeepTransform(p) ==
    \A q \in Photos \ {p} :
        pos'[q] = pos[q] /\ scale'[q] = scale[q] /\ rotation'[q] = rotation[q]

\* C6: a reset of the photo of frame f (the Slash key released over f) leaves
\* it with scale 1.0, rotation 0 and the offset that centres it in f; no
\* other photo's transform, no pixel source and no ownership changes.
C6_ResetYieldsIdentity ==
    [][\A f \in Frames :
          (lastEvent' = "reset" /\ KeyRelease(f, "Slash"))
          => /\ scale'[photo[f]] = One
             /\ rotation'[photo[f]] = 0
             /\ pos'[photo[f]] = Centred(f, photo[f], pixmap)
             /\ OthersKeepTransform(photo[f])
             /\ SameOwners /\ SameSources]_vars

\* A reset has just given a photo wider than its frame, which was fitted to
\* the frame when attached, the scale 1.0.
C6_Witness ==
    /\ lastEvent = "reset"
    /\ \E p \in Photos :
          /\ pixmap[p].w > rects[parentItem[p]].w
          /\ scale[p] = One /\ rotation[p] = 0
          /\ pos[p] = Centred(parentItem[p], p, pixmap)

\* C7: a copy drop of the URL of a valid image on frame t gives t's photo
\* the new pixel source and file name, scale 1.0, rotation 0 and the offset
\* that centres the new image in t; t keeps its photo, and every other
\* photo keeps its pixel source, file name and transform.
C7_FileDropReplacesAndResets ==
    [][\A t \in Frames, mime \in MimeData :
          (/\ lastEvent' = "replace"
           /\ Len(mime.urls) > 0
           /\ QPixmap(mime.urls[1]).w > 0
           /\ ExternalDrop(t, "copy", mime))
          => /\ pixmap'[photo[t]] = QPixmap(mime.urls[1])
             /\ filename'[photo[t]] = mime.urls[1]
             /\ scale'[photo[t]] = One
             /\ rotation'[photo[t]] = 0
             /\ pos'[photo[t]] = Centred(t, photo[t], pixmap')
             /\ SameOwners
             /\ OthersKeepTransform(photo[t])
             /\ \A q \in Photos \ {photo[t]} :
                   pixmap'[q] = pixmap[q] /\ filename'[q] = filename[q]]_vars

\* A drop has just replaced the image of a photo made of small.png by
\* wide.jpg, wider than the photo's frame.
C7_Witness ==
    /\ lastEvent = "replace"
    /\ \E p \in Photos :
          /\ LoopIterNext(filenames, p - 1) = "small.png"
          /\ filename[p] = "wide.jpg"
          /\ pixmap[p].w > rects[parentItem[p]].w
          /\ scale[p] = One

\* C8: a double click whose chosen path, or a copy drop whose URL, decodes
\* to no image (the cancelled chooser's '' included) changes no photo's
\* pixel source, file name, offset, scale or rotation, and no ownership.
C8_InvalidPathIsNoOp ==
    [][/\ \A f \in Frames, path \in BadPaths :
             (lastEvent' = "openInvalid" /\ DoubleClick(f, path)) => SameScene
       /\ \A t \in Frames, mime \in MimeData :
             (/\ lastEvent' = "replaceInvalid"
              /\ Len(mime.urls) > 0
              /\ QPixmap(mime.urls[1]).w = 0
              /\ ExternalDrop(t, "copy", mime))
             => SameScene]_vars

\* A double click with no image chosen has just left a rotated, panned or
\* zoomed photo as it was.
C8_Witness ==
    /\ lastEvent = "openInvalid"
    /\ edits > 0
    /\ \E p \in Photos :
          \/ rotation[p] # 0
          \/ pos[p] # Centred(parentItem[p], p, pixmap)
          \/ scale[p] \notin {One, (One * rects[parentItem[p]].w) \div pixmap[p].w}

\* C9: a move drop on frame t whose text is no swap payload, or whose
\* position is in no frame, changes no ownership and no transform, and no
\* exception leaves the handler.
C9_BadSwapDropIgnored ==
    [][\A t \in Frames, text \in MoveTexts :
          (/\ lastEvent' \in {"dropMalformed", "dropUnresolved"}
           /\ text.form # "pos" \/ Resolved(text) = <<>>
           /\ Drop(t, "move", TextMime(text)))
          => SameOwners /\ SameTransforms /\ ~uncaught']_vars

\* A swap drag started where no frame is has just been dropped on a frame,
\* the photos no longer in the frames main gave them.
C9_Witness ==
    /\ lastEvent = "dropUnresolved"
    /\ ~uncaught
    /\ photo # Identity

\* C10: no step of a secondary-button gesture that ends without a drop on a
\* frame (the press, the moves below and across the drag distance, the
\* release before the drag distance, the drop outside every frame) changes
\* an ownership or a transform; no other event is handled in between.
C10_CancelledDragChangesNothing ==
    [][(/\ lastEvent' \in {"press", "moveBelow", "dragStart", "release",
                           "dropOutside"}
        /\ \/ \E p \in Photos, pt \in PressPoints : MousePress(p, "right", pt)
           \/ \E p \in Photos, pt \in MovePoints, scenePt \in ScenePoints :
                 MouseMoveRight(p, pt, scenePt)
           \/ \E p \in Photos : MouseRelease(p)
           \/ DropOutside)
       => SameOwners /\ SameTransforms]_vars

\* The secondary button has just been released before the drag distance,
\* over a scene with a rotated, panned or zoomed photo.
C10_Witness ==
    /\ lastEvent = "release"
    /\ armed = None
    /\ dragStartPosition # NoPoint
    /\ edits > 0

\* The wheel's modifier states and directions.
Modifiers == {"none", "shift", "shift+ctrl", "ctrl"}
Deltas == {-120, 120}
\* The scale a photo has once attached to a frame: 1.0, or the fitted scale.
AttachedScale(p) ==
    IF pixmap[p].w > rects[parentItem[p]].w
    THEN (One * rects[parentItem[p]].w) \div pixmap[p].w
    ELSE One

\* C14: a wheel gesture on photo p never changes an offset; with no
\* modifier it leaves every rotation as it was; with shift it leaves every
\* scale as it was and turns p by +5 or -5 degrees; with shift+control it
\* turns p by +5 or -5 degrees and gives p the scale the gesture gives with
\* no modifier; with control alone it changes neither; no other photo's
\* scale or rotation changes.
C14_ModifiersSelectCommit ==
    [][\A p \in Photos, delta \in Deltas, m \in Modifiers :
          (lastEvent' = "wheel" /\ Wheel(p, delta, m))
          => LET turned == rotation[p] + (IF delta > 0 THEN 5 ELSE -5)
                 zoomed == wheelEvent(Scene, p, delta, "none").scale[p]
             IN  /\ pos' = pos
                 /\ OthersKeepTransform(p)
                 /\ m = "none" => rotation' = rotation
                 /\ m = "shift" => scale' = scale /\ rotation'[p] = turned
                 /\ m = "shift+ctrl" =>
                       scale'[p] = zoomed /\ rotation'[p] = turned
                 /\ m = "ctrl" => scale' = scale /\ rotation' = rotation]_vars

\* Wheel gestures have turned the first frame's photo and changed its scale.
C14_Witness ==
    /\ lastEvent = "wheel"
    /\ rotation[photo[1]] # 0
    /\ scale[photo[1]] # AttachedScale(photo[1])

\* 0.10, 0.02, 0.05 and 0.01 as scales.
Scale010 == One \div 10
Scale002 == One \div 50
Scale005 == One \div 20
Scale001 == One \div 100

\* C19: the scale a wheel gesture with no modifier commits: on a zoom-in,
\* the scale plus 0.01 when the scale rounded to 2 decimals is below 0.10 and
\* plus 0.05 otherwise, but the scale itself when it is not below 2.0; on a
\* zoom-out, the scale minus 0.05 when it is at least 0.10, minus 0.01 when
\* it is at least 0.02 and below 0.10, and the scale itself below 0.02.
C19_TwoTierStep ==
    [][\A p \in Photos, delta \in Deltas :
          (lastEvent' = "wheel" /\ Wheel(p, delta, "none"))
          => scale'[p] =
                IF delta > 0
                THEN IF scale[p] >= 2 * One THEN scale[p]
                     ELSE IF Round2(scale[p]) < Scale010
                          THEN scale[p] + Scale001
                          ELSE scale[p] + Scale005
                ELSE IF scale[p] >= Scale010 THEN scale[p] - Scale005
                     ELSE IF scale[p] >= Scale002 THEN scale[p] - Scale001
                     ELSE scale[p]]_vars

\* Wheel gestures have brought a photo's scale into the range of the small
\* step, between 0.02 and 0.10.
C19_Witness ==
    /\ lastEvent = "wheel"
    /\ scale[photo[1]] >= Scale002
    /\ Round2(scale[photo[1]]) < Scale010

\* C20: every photo's scale is positive in every reachable state; a zoom-out
\* at a scale of at least 0.02 gives a scale of at least 0.01, and a zoom-out
\* at a scale below 0.02 leaves the scale as it is.
C20_ScaleStaysPositive ==
    /\ [](\A p \in Photos : scale[p] > 0)
    /\ [][\A p \in Photos, m \in Modifiers :
             (lastEvent' = "wheel" /\ Wheel(p, -120, m))
             => /\ scale[p] >= Scale002 => scale'[p] >= Scale001
                /\ scale[p] < Scale002 => scale'[p] = scale[p]]_vars

\* Zoom-outs have brought a photo's scale below 0.02, where it stays.
C20_Witness ==
    /\ lastEvent = "wheel"
    /\ scale[photo[1]] > 0
    /\ scale[photo[1]] < Scale002

\* C11: a plain S or a shift+S shows the file-save dialog exactly when no
\* output path has been chosen so far or the key is shift+S; so the first
\* plain S of a session shows it.
C11_PromptIffNoPathOrSaveAs ==
    [][\A m \in {"none", "shift"}, answer \in SaveAnswers :
          ImageViewKeyRelease("S", m, answer)
          => (prompted' <=> (~everChosen \/ m = "shift"))]_vars

\* C15: the border radius is never below 0; a decrease at radius r gives
\* max(0, r - 1), an increase gives r + 1, and neither changes an
\* ownership, a pixel source or a transform.
C15_RadiusNeverNegative ==
    /\ [](FrameRadius >= 0)
    /\ [][\A m \in KeyModifiers, answer \in SaveAnswers :
             /\ (/\ lastEvent' \in {"radiusDown", "radiusFloor"}
                 /\ ImageViewKeyRelease("Minus", m, answer))
                => /\ FrameRadius' = (IF FrameRadius >= 1 THEN FrameRadius - 1 ELSE 0)
                   /\ SameScene
             /\ (lastEvent' = "radiusUp" /\ ImageViewKeyRelease("Plus", m, answer))
                => FrameRadius' = FrameRadius + 1 /\ SameScene]_vars

\* A decrease has just been handled at radius 0.
C15_Witness ==
    /\ lastEvent = "radiusFloor"
    /\ FrameRadius = 0

\* num / den rounded to the nearest integer.
RoundDiv(num, den) == (2 * num + den) \div (2 * den)

\* C16: the buffer a save renders into is 1024 wide and round(1024 * 2/3) =
\* 683 high.
C16_ExportSize ==
    image # NoImage => image = [w |-> 1024, h |-> RoundDiv(1024 * 2, 3)]

\* Two rectangles share a point of positive area.
Overlap(a, b) ==
    /\ a.x < b.x + b.w /\ b.x < a.x + a.w
    /\ a.y < b.y + b.h /\ b.y < a.y + a.h

\* The area of the rectangles 1..k together, counted with multiplicity.
RECURSIVE AreaSum(_)
AreaSum(k) == IF k = 0 THEN 0 ELSE AreaSum(k - 1) + rects[k].w * rects[k].h

\* C12: the rectangles of a built collage are pairwise non-overlapping, lie
\* in the canvas (1024 wide, 1024 * 2/3 high) and cover it: at least every
\* whole pixel of it, 1024 x 682, which disjoint rectangles inside the canvas
\* do exactly when their areas add up to that of the whole pixels; a uniform
\* grid has numx * numy rectangles.
C12_LayoutCoversCanvas ==
    Built =>
        /\ \A i, j \in Frames : i # j => ~Overlap(rects[i], rects[j])
        /\ \A i \in Frames :
              /\ rects[i].x >= 0 /\ rects[i].y >= 0
              /\ rects[i].x + rects[i].w <= 1024
              /\ 3 * (rects[i].y + rects[i].h) <= 1024 * 2
        /\ AreaSum(Len(rects)) >= 1024 * ((1024 * 2) \div 3)
        /\ layout.kind = "grid" => Len(rects) = layout.numx * layout.numy

\* C13: the photo of the i-th rectangle handed to addPhoto (counted from 0)
\* is made of files[i mod L]; a grid's rectangles are generated column by
\* column, top to bottom within a column; the 3 x 4 grid over twelve
\* distinct files holds twelve distinct files.
C13_FilesAssignedCyclically ==
    /\ \A f \in Frames :
          photo[f] # None =>
              filename[photo[f]] = filenames[((f - 1) % Len(filenames)) + 1]
    /\ layout.kind = "grid" =>
          \A i, j \in Frames :
              i < j => \/ rects[i].x < rects[j].x
                       \/ rects[i].x = rects[j].x /\ rects[i].y < rects[j].y
    /\ (Built /\ Len(rects) = 12 /\ filenames = Album) =>
          Cardinality({filename[photo[f]] : f \in Frames}) = 12

\* The 3 x 4 grid has been built over two files, each used six times.
C13_Witness ==
    /\ Built
    /\ layout = [kind |-> "grid", numx |-> 3, numy |-> 4]
    /\ Len(filenames) = 2
    /\ Cardinality({f \in Frames : filename[photo[f]] = filenames[1]}) = 6

\* C17: when the move of a secondary-button gesture on photo p crosses the
\* drag distance, the position put into the swap payload resolves to the
\* frame that owns p, the source of the gesture, wherever the pointer is;
\* the drop that follows finds the scene as this step left it, so that frame
\* is the swap partner.
C17_PayloadResolvesToSource ==
    [][\A p \in Photos, pt \in MovePoints, scenePt \in ScenePoints :
          (lastEvent' = "dragStart" /\ MouseMoveRight(p, pt, scenePt))
          => Resolved(SwapText(scenePt)) = <<parentItem[p]>>]_vars

\* C21: a move drop on frame t whose payload position resolves to t itself
\* changes nothing: t keeps its photo, and no photo's parent, pixel source,
\* offset, scale or rotation and no other frame's photo changes.
C21_SelfSwapIsNoOp ==
    [][\A t \in Frames, text \in MoveTexts :
          (/\ lastEvent' = "swapSelf"
           /\ text.form = "pos"
           /\ Resolved(text) = <<t>>
           /\ Drop(t, "move", TextMime(text)))
          => SameScene]_vars

\* A photo that is wider than its frame and has been turned, after swaps
\* that took the photos out of the frames main gave them, has just been
\* dragged and dropped within its own frame.
C21_Witness ==
    /\ lastEvent = "swapSelf"
    /\ photo # Identity
    /\ \E p \in Photos :
          /\ pixmap[p].w > rects[parentItem[p]].w
          /\ rotation[p] # 0

====
